---- MODULE Spec2Model ----
(***************************************************************************)
(* ESG knowledge-graph pipeline: identity normalisation and graph merge,   *)
(* the checkpointed extraction run (01_data_extractor.py), the MERGE-based *)
(* loader (02_neo4j_uploader.py) and the embedding backfill                *)
(* (03_vector_store.py).                                                   *)
(*                                                                         *)
(* Text is modelled as a sequence of one-character strings, so that        *)
(* normalize_id works on characters as the code does.                      *)
(***************************************************************************)
EXTENDS Integers, Sequences, FiniteSets, TLC

\* ------------------------------------------------------------------ bounds
\* Rows of the input table (the data frame is the same for every run).
MaxRows == 11
\* Runs of the extraction script (first run, restarts, re-runs).
MaxRuns == 3
\* Items (chunks, nodes, relationships) of a list handed to merge_graphs.
MaxItems == 5
\* Loads started by the writers, and runs of the backfill.
MaxLoads == 3
MaxBackfills == 2
\* Loads started by the writer that runs beside the backfill.
MaxLoadsBesideBackfill == 2
\* Calls of generate_answer.
MaxQuestions == 2

\* --------------------------------------------------------------- constants
BATCH_SIZE == 5

VARIABLES
    \* --- extraction script (01_data_extractor.py, __main__)
    total_rows,        \* len(df)
    ckptFile,          \* content of output/checkpoint_graphs.json
    finalFile,         \* content of output/final_merged_graph_full.json
    all_raw_graphs,    \* the in-memory checkpoint list
    i,                 \* loop variable of the batch loop (a row index)
    final_graph,       \* result of merge_graphs in the terminal step
    pc,                \* position of the script
    \* history of the extraction runs (observers, not program state)
    runs,              \* runs started so far
    start_k,           \* checkpoint length the current run started with
    processed,         \* batches extracted and persisted by any run so far
    processedAtStart,  \* `processed` when the current run started
    attempts,          \* <<batch, ok>> of every extraction of this run
    recorded,          \* what the last completed checkpoint dump wrote
    crashed,           \* the last run ended in a crash
    written,           \* the consolidated graphs that completed runs wrote
    everFailed,        \* some extraction has failed in some run
    \* --- merge_graphs called on an arbitrary list
    raw_data_list,     \* the argument
    merged,            \* the value returned, NotRun before the call
    items,             \* size of raw_data_list
    \* --- the graph store (Neo4j)
    dbNodes,           \* the nodes, in creation order: [label, id, name, embedding]
    dbRels,            \* the relationships, in creation order: [type, from, to]
    constraints,       \* labels with a uniqueness constraint on id
    vindexes,          \* names of the vector indexes
    \* --- loader processes (02_neo4j_uploader.py), one per writer
    lpc,               \* position of each writer in Neo4jCreateWriter.run
    lgraph,            \* the graph each writer loads (an index of Graphs)
    lidx,              \* loop index of each writer
    lresult,           \* the KGWriterModel each writer returned
    ltrace,            \* history: the statements each writer's load has run
    loads,             \* loads started so far
    burst,             \* history: the loads of one graph since the store was `base`
    \* --- embedding backfill (03_vector_store.py, setup_vector_index)
    bpc,               \* position of the backfill
    blabel,            \* index of the label in target_labels
    brecords,          \* records of the current query not yet visited
    bcalls,            \* embed_query calls of this run
    bruns,             \* backfill runs started so far
    bhist,             \* history: the previous run and what happened since
    \* --- query gateway (04_engine_interface.py, generate_answer)
    gpc,               \* position inside generate_answer
    user_question,     \* the argument
    generated,         \* history: the query the retriever generated in this call
    cypher_used,       \* local variable of generate_answer
    gitems,            \* local variable `items`
    gcreate,           \* history: the contexts handed to chat.completions.create
    gfailed,           \* history: the stage that raised in this call, and what
    greturn,           \* what the call returned or raised
    gasked             \* calls made so far

extractVars == <<total_rows, ckptFile, finalFile, all_raw_graphs, i, final_graph,
                 pc, runs, start_k, processed, processedAtStart, attempts,
                 recorded, crashed, written, everFailed>>
mergeVars == <<raw_data_list, merged, items>>
storeVars == <<dbNodes, dbRels, constraints, vindexes>>
writerVars == <<lpc, lgraph, lidx, lresult, ltrace, loads, burst>>
backfillVars == <<bpc, blabel, brecords, bcalls, bruns, bhist>>
gatewayVars == <<gpc, user_question, generated, cypher_used, gitems, gcreate, gfailed,
                 greturn, gasked>>
dbVars == <<storeVars, writerVars, backfillVars, gatewayVars>>
vars == <<extractVars, mergeVars, dbVars>>

\* ------------------------------------------------------------------- text
UpperCase == <<"A","B","C","D","E","F","G","H","I","J","K","L","M",
               "N","O","P","Q","R","S","T","U","V","W","X","Y","Z">>
LowerCase == <<"a","b","c","d","e","f","g","h","i","j","k","l","m",
               "n","o","p","q","r","s","t","u","v","w","x","y","z">>
Digits == {"0","1","2","3","4","5","6","7","8","9"}

Range(s) == {s[k] : k \in DOMAIN s}
Last(s) == s[Len(s)]

\* \w of the regular expression: letters, digits and the underscore.
IsWordChar(c) == c \in Range(UpperCase) \cup Range(LowerCase) \cup Digits \cup {"_"}
\* \s of the regular expression, and what str.strip() removes.
IsSpaceChar(c) == c \in {" ", "\t", "\n"}

\* re.sub(r'[^\w\s]', '', s): drop what is neither a word character nor whitespace.
re_sub_nonword(s) == SelectSeq(s, LAMBDA c : IsWordChar(c) \/ IsSpaceChar(c))

RECURSIVE lstrip(_)
lstrip(s) ==
    IF s # <<>> /\ IsSpaceChar(Head(s)) THEN lstrip(Tail(s)) ELSE s

RECURSIVE rstrip(_)
rstrip(s) ==
    IF s # <<>> /\ IsSpaceChar(s[Len(s)]) THEN rstrip(SubSeq(s, 1, Len(s) - 1)) ELSE s

\* str.strip()
strip(s) == rstrip(lstrip(s))

lower_char(c) ==
    IF c \in Range(UpperCase)
    THEN LowerCase[CHOOSE k \in DOMAIN UpperCase : UpperCase[k] = c]
    ELSE c

\* str.lower()
lower(s) == [k \in DOMAIN s |-> lower_char(s[k])]

\* str.replace(' ', '_'): every single space, one by one.
replace_space(s) == [k \in DOMAIN s |-> IF s[k] = " " THEN "_" ELSE s[k]]

\* Python's None and float('nan') as name values: one-element sequences whose
\* element is no character, so they equal no text.
None == <<"None">>
NaN == <<"NaN">>

\* pandas.isna on a scalar: true of None and NaN, false of every str ("" included).
pd_isna(name) == name \in {None, NaN}

\* ------------------------------------------------------------ normalize_id
normalize_id(label, name) ==
    IF pd_isna(name)
    THEN label \o <<"_","u","n","k","n","o","w","n">>
    ELSE label \o <<"_">> \o replace_space(lower(strip(re_sub_nonword(name))))

\* ------------------------------------------------------------ merge_graphs
\* A Python dict as the sequence of its items in insertion order: assigning to
\* a key that is present replaces the value and keeps the position.
DictHas(d, key) == \E k \in DOMAIN d : d[k].key = key

\* Faulty variant: d.setdefault(key, val), the first value of a key is kept.
DictSetDefault(d, key, val) ==
    IF DictHas(d, key) THEN d ELSE Append(d, [key |-> key, val |-> val])

\* d[key] = val
DictSet(d, key, val) ==
    IF DictHas(d, key)
    THEN [k \in DOMAIN d |-> IF d[k].key = key THEN [key |-> key, val |-> val] ELSE d[k]]
    ELSE Append(d, [key |-> key, val |-> val])

\* dict.get(key, default)
DictGet(d, key, default) ==
    IF DictHas(d, key)
    THEN d[CHOOSE k \in DOMAIN d : d[k].key = key].val
    ELSE default

\* list(d.values())
DictValues(d) == [k \in DOMAIN d |-> d[k].val]

\* chunk.get(key, []): a chunk is a dict that may lack the key.
ChunkGet(chunk, key) == IF key \in DOMAIN chunk THEN chunk[key] ELSE <<>>

\* `not chunk`: None and the empty dict are both falsy.
Falsy(chunk) == DOMAIN chunk = {}

\* Faulty variant: combined_nodes keyed by the batch-local id instead of the normalized id.
RECURSIVE MergeNodesByLocalId(_, _)
MergeNodesByLocalId(nodes, st) ==
    IF nodes = <<>> THEN st
    ELSE LET node == Head(nodes)
             old_id == node.id
             new_id == normalize_id(node.label, node.name)
         IN MergeNodesByLocalId(Tail(nodes),
                [id_map |-> DictSet(st.id_map, old_id, new_id),
                 combined_nodes |-> DictSet(st.combined_nodes, old_id,
                     [id |-> new_id, label |-> node.label, name |-> node.name])])

\* The node loop of one chunk (lines 58-62), from the state st = [id_map, combined_nodes].
RECURSIVE MergeNodes(_, _)
MergeNodes(nodes, st) ==
    IF nodes = <<>> THEN st
    ELSE LET node == Head(nodes)
             old_id == node.id
             new_id == normalize_id(node.label, node.name)
         IN MergeNodes(Tail(nodes),
                [id_map |-> DictSet(st.id_map, old_id, new_id),
                 combined_nodes |-> DictSet(st.combined_nodes, new_id,
                     [id |-> new_id, label |-> node.label, name |-> node.name])])

\* Faulty variant: a relationship with an endpoint that the chunk's id_map does
\* not have is left out.
RewriteRelsDropDangling(rels, id_map) ==
    LET Known(r) == DictHas(id_map, r.start_node_id) /\ DictHas(id_map, r.end_node_id)
        kept == SelectSeq(rels, Known)
    IN [k \in DOMAIN kept |->
           [type |-> kept[k].type,
            start_node_id |-> DictGet(id_map, kept[k].start_node_id, kept[k].start_node_id),
            end_node_id |-> DictGet(id_map, kept[k].end_node_id, kept[k].end_node_id)]]

\* The relationship loop of one chunk (lines 64-67): endpoints through the id_map
\* of this chunk, the raw id when the chunk has no such node.
RewriteRels(rels, id_map) ==
    [k \in DOMAIN rels |->
        [type |-> rels[k].type,
         start_node_id |-> DictGet(id_map, rels[k].start_node_id, rels[k].start_node_id),
         end_node_id |-> DictGet(id_map, rels[k].end_node_id, rels[k].end_node_id)]]

\* The loop over the chunks (lines 55-67), from acc = [combined_nodes, combined_relationships].
RECURSIVE MergeChunks(_, _)
MergeChunks(chunks, acc) ==
    IF chunks = <<>> THEN acc
    ELSE LET chunk == Head(chunks) IN
         IF Falsy(chunk) THEN MergeChunks(Tail(chunks), acc)
         ELSE LET st == MergeNodes(ChunkGet(chunk, "nodes"),
                            [id_map |-> <<>>, combined_nodes |-> acc.combined_nodes])
              IN MergeChunks(Tail(chunks),
                    [combined_nodes |-> st.combined_nodes,
                     combined_relationships |-> acc.combined_relationships \o
                         RewriteRels(ChunkGet(chunk, "relationships"), st.id_map)])

\* The rel_tuple of line 72.
RelTuple(r) == <<r.type, r.start_node_id, r.end_node_id>>

\* Faulty variant: the tuple of a kept relationship is not added to seen_rels.
RECURSIVE UniqueRelsNotRemembered(_, _, _)
UniqueRelsNotRemembered(rels, seen_rels, unique_rels) ==
    IF rels = <<>> THEN unique_rels
    ELSE LET r == Head(rels) IN
         IF RelTuple(r) \notin seen_rels
         THEN UniqueRelsNotRemembered(Tail(rels), seen_rels, Append(unique_rels, r))
         ELSE UniqueRelsNotRemembered(Tail(rels), seen_rels, unique_rels)

\* Lines 69-75: keep a relationship when its tuple has not been seen.
RECURSIVE UniqueRels(_, _, _)
UniqueRels(rels, seen_rels, unique_rels) ==
    IF rels = <<>> THEN unique_rels
    ELSE LET r == Head(rels) IN
         IF RelTuple(r) \notin seen_rels
         THEN UniqueRels(Tail(rels), seen_rels \cup {RelTuple(r)}, Append(unique_rels, r))
         ELSE UniqueRels(Tail(rels), seen_rels, unique_rels)

merge_graphs(list) ==
    LET acc == MergeChunks(list, [combined_nodes |-> <<>>, combined_relationships |-> <<>>])
    IN [nodes |-> DictValues(acc.combined_nodes),
        relationships |-> UniqueRels(acc.combined_relationships, {}, <<>>)]

\* ------------------------------------------------------- extraction script
\* Labels of the schema, as text (they are concatenated into ids).
Company == <<"C","o","m","p","a","n","y">>
Report == <<"R","e","p","o","r","t">>
Rating == <<"R","a","t","i","n","g">>

EmptyGraph == [nodes |-> <<>>, relationships |-> <<>>]

\* A file: absent, truncated (opened for writing, not yet written: no JSON
\* document), or holding the JSON document `data`.
NoFile(empty) == [kind |-> "absent", data |-> empty]
Truncated(empty) == [kind |-> "truncated", data |-> empty]
Json(d) == [kind |-> "json", data |-> d]

\* The structured-extraction collaborator, response.dict() of line 140. With
\* temperature 0 the answer is a function of the batch; ids are batch-local.
Response(batch) ==
    CASE batch % 3 = 0 ->
           [nodes |-> << [id |-> <<"1">>, label |-> Company, name |-> <<"A","c","m","e">>],
                         [id |-> <<"2">>, label |-> Report, name |-> <<"R","1">>] >>,
            relationships |-> << [type |-> "HAS_REPORT", start_node_id |-> <<"1">>,
                                  end_node_id |-> <<"2">>] >>]
      [] batch % 3 = 1 ->
           [nodes |-> << [id |-> <<"1">>, label |-> Report, name |-> <<"R","1">>],
                         [id |-> <<"2">>, label |-> Rating, name |-> <<"A">>] >>,
            relationships |-> << [type |-> "HAS_RATING", start_node_id |-> <<"1">>,
                                  end_node_id |-> <<"2">>] >>]
      [] OTHER ->
           [nodes |-> << [id |-> <<"1">>, label |-> Company, name |-> <<"a","c","m","e",".">>],
                         [id |-> <<"2">>, label |-> Report, name |-> <<"R","2">>] >>,
            relationships |-> << [type |-> "HAS_REPORT", start_node_id |-> <<"1">>,
                                  end_node_id |-> <<"2">>] >>]

\* The batch that row index r starts: range(processed_count, total_rows, BATCH_SIZE).
BatchOf(r) == r \div BATCH_SIZE

ExtractIdle(rows) ==
    /\ total_rows = rows
    /\ ckptFile = NoFile(<<>>)
    /\ finalFile = NoFile(EmptyGraph)
    /\ all_raw_graphs = <<>>
    /\ i = 0
    /\ final_graph = EmptyGraph
    /\ pc = "idle"
    /\ runs = 0
    /\ start_k = 0
    /\ processed = {}
    /\ processedAtStart = {}
    /\ attempts = <<>>
    /\ recorded = NoFile(<<>>)
    /\ crashed = FALSE
    /\ written = <<>>
    /\ everFailed = FALSE

\* Lines 116-127: a new process; the checkpoint, when the file exists, is loaded
\* and the loop starts at len(all_raw_graphs) * BATCH_SIZE.
StartRun ==
    /\ pc \in {"idle", "done"}
    /\ runs < MaxRuns
    /\ ckptFile.kind # "truncated"
    /\ all_raw_graphs' = IF ckptFile.kind = "json" THEN ckptFile.data ELSE <<>>
    /\ i' = Len(all_raw_graphs') * BATCH_SIZE
    /\ start_k' = Len(all_raw_graphs')
    /\ final_graph' = EmptyGraph
    /\ pc' = "loop"
    /\ runs' = runs + 1
    /\ processedAtStart' = processed
    /\ attempts' = <<>>
    /\ crashed' = FALSE
    /\ UNCHANGED <<total_rows, ckptFile, finalFile, processed, recorded,
                   written, everFailed>>

\* Lines 120-122 on a file that holds no JSON document: json.load raises, nothing
\* catches it, the process ends before the loop.
StartRunLoadRaises ==
    /\ pc \in {"idle", "done"}
    /\ runs < MaxRuns
    /\ ckptFile.kind = "truncated"
    /\ all_raw_graphs' = <<>>
    /\ i' = 0
    /\ start_k' = 0
    /\ final_graph' = EmptyGraph
    /\ pc' = "idle"
    /\ runs' = runs + 1
    /\ processedAtStart' = processed
    /\ attempts' = <<>>
    /\ crashed' = FALSE
    /\ UNCHANGED <<total_rows, ckptFile, finalFile, processed, recorded,
                   written, everFailed>>

\* Lines 139-140: chain.invoke returns and the response is appended in memory.
ExtractOk ==
    /\ pc = "loop"
    /\ i < total_rows
    /\ all_raw_graphs' = Append(all_raw_graphs, Response(BatchOf(i)))
    /\ attempts' = Append(attempts, <<BatchOf(i), TRUE>>)
    /\ pc' = "open"
    /\ UNCHANGED <<total_rows, ckptFile, finalFile, i, final_graph, runs, start_k,
                   processed, processedAtStart, recorded, crashed, written, everFailed>>

\* Line 142: open(CHECKPOINT_FILE, "w") truncates the file.
OpenCheckpoint ==
    /\ pc = "open"
    /\ ckptFile' = Truncated(<<>>)
    /\ pc' = "dump"
    /\ UNCHANGED <<total_rows, finalFile, all_raw_graphs, i, final_graph, runs,
                   start_k, processed, processedAtStart, attempts, recorded, crashed,
                   written, everFailed>>

\* Line 143 and the end of the with block: the whole list is written and the file
\* closed; the loop goes to the next batch.
DumpCheckpoint ==
    /\ pc = "dump"
    /\ ckptFile' = Json(all_raw_graphs)
    /\ recorded' = Json(all_raw_graphs)
    /\ processed' = processed \cup {BatchOf(i)}
    /\ i' = i + BATCH_SIZE
    /\ pc' = "loop"
    /\ UNCHANGED <<total_rows, finalFile, all_raw_graphs, final_graph, runs, start_k,
                   processedAtStart, attempts, crashed, written, everFailed>>

\* Faulty variant: a failed batch leaves a null placeholder in the checkpoint list.
ExtractFailWithPlaceholder ==
    /\ pc = "loop"
    /\ i < total_rows
    /\ attempts' = Append(attempts, <<BatchOf(i), FALSE>>)
    /\ everFailed' = TRUE
    /\ i' = i + BATCH_SIZE
    /\ all_raw_graphs' = Append(all_raw_graphs, <<>>)
    /\ UNCHANGED <<total_rows, ckptFile, finalFile, final_graph, pc,
                   runs, start_k, processed, processedAtStart, recorded, crashed,
                   written>>

\* Lines 145-147: chain.invoke raises; the error is printed, the script sleeps
\* and the loop goes to the next batch.
ExtractFail ==
    /\ pc = "loop"
    /\ i < total_rows
    /\ attempts' = Append(attempts, <<BatchOf(i), FALSE>>)
    /\ everFailed' = TRUE
    /\ i' = i + BATCH_SIZE
    /\ UNCHANGED <<total_rows, ckptFile, finalFile, all_raw_graphs, final_graph, pc,
                   runs, start_k, processed, processedAtStart, recorded, crashed,
                   written>>

\* Line 150: the loop is exhausted.
FinalMerge ==
    /\ pc = "loop"
    /\ i >= total_rows
    /\ final_graph' = merge_graphs(all_raw_graphs)
    /\ pc' = "open_final"
    /\ UNCHANGED <<total_rows, ckptFile, finalFile, all_raw_graphs, i, runs, start_k,
                   processed, processedAtStart, attempts, recorded, crashed,
                   written, everFailed>>

\* Line 152: open(FINAL_OUTPUT_FILE, "w").
OpenFinal ==
    /\ pc = "open_final"
    /\ finalFile' = Truncated(EmptyGraph)
    /\ pc' = "dump_final"
    /\ UNCHANGED <<total_rows, ckptFile, all_raw_graphs, i, final_graph, runs, start_k,
                   processed, processedAtStart, attempts, recorded, crashed,
                   written, everFailed>>

\* Lines 153-155: the consolidated graph is written; the script ends.
DumpFinal ==
    /\ pc = "dump_final"
    /\ finalFile' = Json(final_graph)
    /\ pc' = "done"
    /\ written' = Append(written, final_graph)
    /\ UNCHANGED <<total_rows, ckptFile, all_raw_graphs, i, final_graph, runs, start_k,
                   processed, processedAtStart, attempts, recorded, crashed,
                   everFailed>>

\* The process is killed anywhere in a run: its memory is lost, the files stay
\* as they are.
Crash ==
    /\ pc \notin {"idle", "done"}
    /\ pc' = "idle"
    /\ crashed' = TRUE
    /\ all_raw_graphs' = <<>>
    /\ i' = 0
    /\ final_graph' = EmptyGraph
    /\ UNCHANGED <<total_rows, ckptFile, finalFile, runs, start_k, processed,
                   processedAtStart, attempts, recorded, written, everFailed>>

\* A step of the batch loop of the running script (lines 129-147).
LoopStep ==
    \/ ExtractOk
    \/ OpenCheckpoint
    \/ DumpCheckpoint
    \/ ExtractFail

NextExtract ==
    \/ StartRun /\ UNCHANGED <<mergeVars, dbVars>>
    \/ StartRunLoadRaises /\ UNCHANGED <<mergeVars, dbVars>>
    \/ ExtractOk /\ UNCHANGED <<mergeVars, dbVars>>
    \/ OpenCheckpoint /\ UNCHANGED <<mergeVars, dbVars>>
    \/ DumpCheckpoint /\ UNCHANGED <<mergeVars, dbVars>>
    \/ ExtractFail /\ UNCHANGED <<mergeVars, dbVars>>
    \/ FinalMerge /\ UNCHANGED <<mergeVars, dbVars>>
    \/ OpenFinal /\ UNCHANGED <<mergeVars, dbVars>>
    \/ DumpFinal /\ UNCHANGED <<mergeVars, dbVars>>
    \/ Crash /\ UNCHANGED <<mergeVars, dbVars>>

\* ------------------------------------------- merge_graphs on any argument
\* The records the extraction collaborator may put into a partial graph: ids are
\* batch-local, names are free text (or missing), endpoints may name an id that
\* no node of the batch has.
NodeMenu ==
    { [id |-> <<"1">>, label |-> Company, name |-> <<"A","c","m","e">>],
      [id |-> <<"2">>, label |-> Company, name |-> <<"a","c","m","e",".">>],
      [id |-> <<"2">>, label |-> Rating, name |-> <<"A"," ","b">>],
      [id |-> <<"1">>, label |-> Company, name |-> <<>>],
      [id |-> <<"3">>, label |-> Company, name |-> None] }

RelMenu ==
    { [type |-> "HAS_RATING", start_node_id |-> <<"1">>, end_node_id |-> <<"2">>],
      [type |-> "HAS_RATING", start_node_id |-> <<"1">>,
       end_node_id |-> normalize_id(Rating, <<"A"," ","b">>)],
      [type |-> "HAS_REPORT", start_node_id |-> <<"2">>, end_node_id |-> <<"1">>] }

\* A partial graph with nothing in it, and a falsy entry of the list (None).
EmptyChunk == [nodes |-> <<>>, relationships |-> <<>>]
NoneChunk == <<>>

NotRun == [nodes |-> <<>>, relationships |-> <<>>, ran |-> FALSE]

MergeIdle ==
    /\ raw_data_list = <<>>
    /\ merged = NotRun
    /\ items = 0

\* The caller builds the argument: a new entry of the list ...
AppendChunk(chunk) ==
    /\ ~merged.ran
    /\ items < MaxItems
    /\ raw_data_list' = Append(raw_data_list, chunk)
    /\ items' = items + 1
    /\ UNCHANGED merged

\* ... a node in the last partial graph ...
AppendNode(node) ==
    /\ ~merged.ran
    /\ items < MaxItems
    /\ raw_data_list # <<>>
    /\ ~Falsy(Last(raw_data_list))
    /\ raw_data_list' = [raw_data_list EXCEPT ![Len(raw_data_list)].nodes = Append(@, node)]
    /\ items' = items + 1
    /\ UNCHANGED merged

\* ... a relationship in the last partial graph.
AppendRel(rel) ==
    /\ ~merged.ran
    /\ items < MaxItems
    /\ raw_data_list # <<>>
    /\ ~Falsy(Last(raw_data_list))
    /\ raw_data_list' =
          [raw_data_list EXCEPT ![Len(raw_data_list)].relationships = Append(@, rel)]
    /\ items' = items + 1
    /\ UNCHANGED merged

\* merge_graphs(raw_data_list) is called and returns.
CallMerge ==
    /\ ~merged.ran
    /\ merged' = [nodes |-> merge_graphs(raw_data_list).nodes,
                  relationships |-> merge_graphs(raw_data_list).relationships,
                  ran |-> TRUE]
    /\ UNCHANGED <<raw_data_list, items>>

NextMerge ==
    \/ \E chunk \in {EmptyChunk, NoneChunk} : AppendChunk(chunk) /\ UNCHANGED <<extractVars, dbVars>>
    \/ \E node \in NodeMenu : AppendNode(node) /\ UNCHANGED <<extractVars, dbVars>>
    \/ \E rel \in RelMenu : AppendRel(rel) /\ UNCHANGED <<extractVars, dbVars>>
    \/ CallMerge /\ UNCHANGED <<extractVars, dbVars>>


\* --- merge_graphs on lists that need not come from the extraction model
\* Lines 59-62 subscript node['id'], node['label'], node['name'] and lines 65-67
\* rel['start_node_id'], rel['end_node_id'], rel['type']: a record without the
\* key raises KeyError, which nothing in merge_graphs catches.
NodeRaises(node) == ~({"id", "label", "name"} \subseteq DOMAIN node)
RelRaises(rel) == ~({"type", "start_node_id", "end_node_id"} \subseteq DOMAIN rel)

ChunkRaises(chunk) ==
    /\ ~Falsy(chunk)
    /\ \/ \E k \in DOMAIN ChunkGet(chunk, "nodes") : NodeRaises(ChunkGet(chunk, "nodes")[k])
       \/ \E k \in DOMAIN ChunkGet(chunk, "relationships") :
             RelRaises(ChunkGet(chunk, "relationships")[k])

MergeRaises(list) == \E c \in DOMAIN list : ChunkRaises(list[c])

\* The call ended by the exception: there is no value.
KeyError == [nodes |-> <<>>, relationships |-> <<>>, ran |-> TRUE, raised |-> "KeyError"]

\* Partial graphs that lack a key, and records that lack a field.
PartialMenu ==
    { EmptyChunk, NoneChunk, [nodes |-> <<>>], [relationships |-> <<>>] }
AnyNodeMenu ==
    { [id |-> <<"1">>, label |-> Company, name |-> <<"A","c","m","e">>],
      [id |-> <<"2">>, label |-> Rating, name |-> <<"A"," ","b">>],
      [id |-> <<"1">>, label |-> Company] }
AnyRelMenu ==
    { [type |-> "HAS_RATING", start_node_id |-> <<"1">>, end_node_id |-> <<"2">>],
      [type |-> "HAS_RATING", start_node_id |-> <<"1">>] }

AppendAnyNode(node) ==
    /\ raw_data_list # <<>>
    /\ "nodes" \in DOMAIN Last(raw_data_list)
    /\ AppendNode(node)

AppendAnyRel(rel) ==
    /\ raw_data_list # <<>>
    /\ "relationships" \in DOMAIN Last(raw_data_list)
    /\ AppendRel(rel)

\* merge_graphs(raw_data_list) is called, and returns or raises.
CallMergeAny ==
    /\ ~merged.ran
    /\ merged' = IF MergeRaises(raw_data_list) THEN KeyError
                 ELSE [nodes |-> merge_graphs(raw_data_list).nodes,
                       relationships |-> merge_graphs(raw_data_list).relationships,
                       ran |-> TRUE]
    /\ UNCHANGED <<raw_data_list, items>>

NextMergeAny ==
    \/ \E chunk \in PartialMenu : AppendChunk(chunk) /\ UNCHANGED <<extractVars, dbVars>>
    \/ \E node \in AnyNodeMenu : AppendAnyNode(node) /\ UNCHANGED <<extractVars, dbVars>>
    \/ \E rel \in AnyRelMenu : AppendAnyRel(rel) /\ UNCHANGED <<extractVars, dbVars>>
    \/ CallMergeAny /\ UNCHANGED <<extractVars, dbVars>>


\* ----------------------------------------------------------- query gateway
\* Python values of the returned pair: None, and a str.
NoneType == [type |-> "NoneType"]
Str(s) == [type |-> "str", value |-> s]

\* The questions asked, the queries the retriever's model may generate, the
\* records a query may return, the texts the chat model may answer, and the
\* messages of the exceptions the collaborators may raise.
Questions == {"rating of NetApp?", "pillar of Climate Change?"}
Queries == {"MATCH (c:Company) RETURN c", "MATCH (t:Theme) RETURN t", ""}
ItemLists == {<<>>, <<"r1">>, <<"r1", "r2">>}
Contents == {"A", ""}
Exceptions == {"timeout", "syntax error"}

NoQuery == [type |-> "no query generated"]
NotReturned == [kind |-> "running"]
NoException == [stage |-> "none", exception |-> ""]
RaisedAt(stage, e) == [stage |-> stage, exception |-> e]
Returned(answer, query) == [kind |-> "return", answer |-> answer, query |-> query]
Raised(e) == [kind |-> "raise", exception |-> e]

\* "\n".join([str(i) for i in items])
RECURSIVE Join(_)
Join(list) ==
    IF list = <<>> THEN ""
    ELSE IF Len(list) = 1 THEN Head(list)
    ELSE Head(list) \o "\n" \o Join(Tail(list))

\* Line 89: the answer of the except clause.
ErrorAnswer(e) == Str("error during analysis: " \o e)

\* Faulty variant: no except clause, the exception leaves generate_answer.
Propagate(e) == Raised(e)

\* Lines 88-89: except Exception as e: return the tagged message and "Error".
Except(e) == Returned(ErrorAnswer(e), Str("Error"))

\* Faulty variant: the query is left out of the pair returned for no record.
NoAnswerNoQuery(query) == Returned(NoneType, Str(""))

\* Lines 75-76: return None, cypher_used.
NoAnswer(query) == Returned(NoneType, Str(query))

GatewayIdle ==
    /\ gpc = "idle"
    /\ user_question = ""
    /\ generated = NoQuery
    /\ cypher_used = ""
    /\ gitems = <<>>
    /\ gcreate = <<>>
    /\ gfailed = NoException
    /\ greturn = NotReturned
    /\ gasked = 0

\* Line 120 calls generate_answer; line 71 calls retriever.search.
Ask(q) ==
    /\ gpc \in {"idle", "returned"}
    /\ gasked < MaxQuestions
    /\ gpc' = "search"
    /\ user_question' = q
    /\ generated' = NoQuery
    /\ cypher_used' = ""
    /\ gitems' = <<>>
    /\ gcreate' = <<>>
    /\ gfailed' = NoException
    /\ greturn' = NotReturned
    /\ gasked' = gasked + 1

\* Lines 71-76: retriever.search returns the query it generated and ran and the
\* records found; with no record generate_answer returns (None, cypher_used).
SearchReturns(query, found) ==
    /\ gpc = "search"
    /\ generated' = Str(query)
    /\ cypher_used' = query
    /\ gitems' = found
    /\ gpc' = IF found = <<>> THEN "returned" ELSE "create"
    /\ greturn' = IF found = <<>> THEN NoAnswer(query) ELSE NotReturned
    /\ UNCHANGED <<user_question, gcreate, gfailed, gasked>>

\* Line 71 raises while the query is being generated: there is no query.
GenerationRaises(e) ==
    /\ gpc = "search"
    /\ gpc' = "returned"
    /\ gfailed' = RaisedAt("generation", e)
    /\ greturn' = Except(e)
    /\ UNCHANGED <<user_question, generated, cypher_used, gitems, gcreate, gasked>>

\* Line 71 raises while the generated query is executed: the query stays inside
\* retriever.search.
ExecutionRaises(query, e) ==
    /\ gpc = "search"
    /\ generated' = Str(query)
    /\ gpc' = "returned"
    /\ gfailed' = RaisedAt("execution", e)
    /\ greturn' = Except(e)
    /\ UNCHANGED <<user_question, cypher_used, gitems, gcreate, gasked>>

\* Lines 78-86: the chat model answers.
CreateReturns(content) ==
    /\ gpc = "create"
    /\ gcreate' = Append(gcreate, Join(gitems))
    /\ gpc' = "returned"
    /\ greturn' = Returned(Str(content), Str(cypher_used))
    /\ UNCHANGED <<user_question, generated, cypher_used, gitems, gfailed, gasked>>

\* Lines 79-85 raise.
CreateRaises(e) ==
    /\ gpc = "create"
    /\ gcreate' = Append(gcreate, Join(gitems))
    /\ gpc' = "returned"
    /\ gfailed' = RaisedAt("synthesis", e)
    /\ greturn' = Except(e)
    /\ UNCHANGED <<user_question, generated, cypher_used, gitems, gasked>>

NextGateway ==
    \/ \E q \in Questions : Ask(q) /\ UNCHANGED <<extractVars, mergeVars, storeVars, writerVars, backfillVars>>
    \/ \E query \in Queries, found \in ItemLists :
          SearchReturns(query, found) /\ UNCHANGED <<extractVars, mergeVars, storeVars, writerVars, backfillVars>>
    \/ \E e \in Exceptions :
          GenerationRaises(e) /\ UNCHANGED <<extractVars, mergeVars, storeVars, writerVars, backfillVars>>
    \/ \E query \in Queries, e \in Exceptions :
          ExecutionRaises(query, e) /\ UNCHANGED <<extractVars, mergeVars, storeVars, writerVars, backfillVars>>
    \/ \E content \in Contents :
          CreateReturns(content) /\ UNCHANGED <<extractVars, mergeVars, storeVars, writerVars, backfillVars>>
    \/ \E e \in Exceptions :
          CreateRaises(e) /\ UNCHANGED <<extractVars, mergeVars, storeVars, writerVars, backfillVars>>

\* ------------------------------------------------------------ graph store
\* A property that a node does not have, and the null of a JSON document.
Absent == "<absent>"
Null == "<null>"

\* No embedding property, and the vector embed_query returns for a text.
NoEmbedding == [set |-> FALSE, of |-> ""]
Vector(text) == [set |-> TRUE, of |-> text]

\* The labels of _prepare_db (line 52).
KnownLabels == <<"Company", "Report", "Rating", "Pillar", "Theme", "Content">>

\* The consolidated graphs a writer may find in final_merged_graph_full.json, as
\* main() turns them into a Neo4jGraph (lines 102-119): the properties of a node
\* are its keys other than id and label, those of a relationship are empty.
Graphs ==
    << [nodes |-> << [id |-> "Company_acme", label |-> "Company",
                      properties |-> [name |-> "Acme"]],
                     [id |-> "Rating_a", label |-> "Rating",
                      properties |-> [name |-> "A"]] >>,
        relationships |-> << [type |-> "HAS_RATING", start_node_id |-> "Company_acme",
                              end_node_id |-> "Rating_a"] >>],
       [nodes |-> << [id |-> "Company_acme", label |-> "Company",
                      properties |-> [name |-> "acme."]],
                     [id |-> "Content_", label |-> "Content",
                      properties |-> [name |-> ""]] >>,
        relationships |-> << [type |-> "HAS_RATING", start_node_id |-> "Company_acme",
                              end_node_id |-> "Rating_a"],
                             [type |-> "HAS_CONTENT", start_node_id |-> "Company_acme",
                              end_node_id |-> "Content_"] >>],
       [nodes |-> << [id |-> "Content_c1", label |-> "Content",
                      properties |-> [name |-> "c1"]] >>,
        relationships |-> << [type |-> "HAS_CONTENT", start_node_id |-> "Report_r1",
                              end_node_id |-> "Content_c1"] >>] >>

Writers == {1, 2}

\* Faulty variant: SET n = $props, which removes every property $props lacks.
ReplaceProps(n, props) ==
    [key \in DOMAIN n |->
        IF key \in {"label", "id"} THEN n[key]
        ELSE IF key \in DOMAIN props /\ props[key] # Null THEN props[key]
        ELSE IF key = "embedding" THEN NoEmbedding
        ELSE Absent]

\* SET n += $props: every key of props is written; a null value removes the property.
SetProps(n, props) ==
    [key \in DOMAIN n |->
        IF key \in DOMAIN props /\ key \notin {"label", "id"}
        THEN (IF props[key] = Null THEN Absent ELSE props[key])
        ELSE n[key]]

\* The nodes that (n:`label` {id: $id}) matches.
MatchLabelId(nodes, label, id) ==
    {k \in DOMAIN nodes : nodes[k].label = label /\ nodes[k].id = id}

\* The nodes that ({id: $id}) matches, whatever their label.
MatchId(nodes, id) == {k \in DOMAIN nodes : nodes[k].id = id}

\* Faulty variant: CREATE instead of MERGE, a new node on every upsert.
CreateNode(nodes, node) ==
    Append(nodes, SetProps([label |-> node.label, id |-> node.id, name |-> Absent,
                            embedding |-> NoEmbedding], node.properties))

\* Lines 65-66: MERGE (n:`label` {id: $id}) SET n += $props, one auto-commit query.
MergeNode(nodes, node) ==
    IF MatchLabelId(nodes, node.label, node.id) = {}
    THEN Append(nodes, SetProps([label |-> node.label, id |-> node.id, name |-> Absent,
                                 embedding |-> NoEmbedding], node.properties))
    ELSE [k \in DOMAIN nodes |->
            IF k \in MatchLabelId(nodes, node.label, node.id)
            THEN SetProps(nodes[k], node.properties)
            ELSE nodes[k]]

\* Faulty variant: CREATE (a)-[r:`type`]->(b), a new relationship on every upsert.
RECURSIVE CreateEdges(_, _, _)
CreateEdges(rels, pairs, type) ==
    IF pairs = {} THEN rels
    ELSE LET pr == CHOOSE x \in pairs :
                      \A y \in pairs : x[1] < y[1] \/ (x[1] = y[1] /\ x[2] <= y[2])
             edge == [type |-> type, from |-> pr[1], to |-> pr[2]]
         IN CreateEdges(Append(rels, edge), pairs \ {pr}, type)

\* MERGE (a)-[r:`type`]->(b) for the matched pairs, in the order of the rows.
RECURSIVE MergeEdges(_, _, _)
MergeEdges(rels, pairs, type) ==
    IF pairs = {} THEN rels
    ELSE LET pr == CHOOSE x \in pairs :
                      \A y \in pairs : x[1] < y[1] \/ (x[1] = y[1] /\ x[2] <= y[2])
             edge == [type |-> type, from |-> pr[1], to |-> pr[2]]
         IN MergeEdges(IF \E k \in DOMAIN rels : rels[k] = edge
                       THEN rels ELSE Append(rels, edge),
                       pairs \ {pr}, type)

\* Faulty variant: MERGE of the whole pattern, which creates what it does not match.
MergeRelOrCreate(nodes, rels, rel) ==
    IF MatchId(nodes, rel.start_node_id) = {} \/ MatchId(nodes, rel.end_node_id) = {}
    THEN Append(rels, [type |-> rel.type, from |-> 0, to |-> 0])
    ELSE MergeEdges(rels, MatchId(nodes, rel.start_node_id) \X MatchId(nodes, rel.end_node_id),
                    rel.type)

\* Lines 71-80: MATCH (a {id: $start_id}), (b {id: $end_id}) MERGE (a)-[r]->(b)
\* SET r += {}: no row, and so no write, when an endpoint matches no node.
MergeRel(nodes, rels, rel) ==
    MergeEdges(rels, MatchId(nodes, rel.start_node_id) \X MatchId(nodes, rel.end_node_id),
               rel.type)

\* A label has two nodes with one id: CREATE CONSTRAINT fails on it.
HasDuplicate(nodes, label) ==
    \E a, b \in DOMAIN nodes :
        a # b /\ nodes[a].label = label /\ nodes[b].label = label /\ nodes[a].id = nodes[b].id

\* The labels _prepare_db gets through (lines 53-54): all of them, or those before
\* the first label whose constraint cannot be created.
Prepared(nodes, cons) ==
    LET bad == {k \in DOMAIN KnownLabels :
                   KnownLabels[k] \notin cons /\ HasDuplicate(nodes, KnownLabels[k])}
    IN {KnownLabels[k] : k \in {j \in DOMAIN KnownLabels : \A b \in bad : j < b}}

NoKGWriterModel == [status |-> "none", nodes |-> 0, rels |-> 0]

\* History of the loads of one graph: the store when the first of them started
\* (base), whether only loads of this graph have written since (clean), whether
\* two of them overlapped (concurrent), the store when the first of them
\* succeeded (settled, at), the writers whose load started after that (after)
\* and whether such a load has succeeded too (reloaded).
NoBurst == [graph |-> 0, base |-> <<>>, baseRels |-> <<>>, clean |-> FALSE,
            concurrent |-> FALSE, settled |-> FALSE, atNodes |-> <<>>, atRels |-> <<>>,
            after |-> {}, reloaded |-> FALSE]

\* History of the backfill runs: whether this run had a failed embedding call,
\* whether a writer has written since it started, and the same of the run before.
NoBackfillYet == [failed |-> FALSE, quiet |-> TRUE, prevDone |-> FALSE,
                  prevFailed |-> FALSE, prevQuiet |-> FALSE]

DbIdle ==
    /\ dbNodes = <<>>
    /\ dbRels = <<>>
    /\ constraints = {}
    /\ vindexes = {}
    /\ lpc = [w \in Writers |-> "idle"]
    /\ lgraph = [w \in Writers |-> 1]
    /\ lidx = [w \in Writers |-> 1]
    /\ lresult = [w \in Writers |-> NoKGWriterModel]
    /\ ltrace = [w \in Writers |-> <<>>]
    /\ loads = 0
    /\ burst = NoBurst
    /\ bpc = "idle"
    /\ blabel = 1
    /\ brecords = <<>>
    /\ bcalls = 0
    /\ bruns = 0
    /\ bhist = NoBackfillYet

Active(w) == lpc[w] \in {"prepare", "nodes", "rels"}

Other(w) == CHOOSE x \in Writers : x # w

\* Faulty variant: the relationship loop starts before the node loop has ended.
AfterNodeToRels(g, k) == IF Len(g.relationships) > 0 THEN "rels" ELSE "done"

\* The position after the node at index k has been written.
AfterNode(g, k) ==
    IF k < Len(g.nodes) THEN "nodes"
    ELSE IF Len(g.relationships) > 0 THEN "rels" ELSE "done"

\* The position after the relationship at index k has been written.
AfterRel(g, k) == IF k < Len(g.relationships) THEN "rels" ELSE "done"

\* Line 82: the result of a run that got through.
Success(g) == [status |-> "SUCCESS", nodes |-> Len(g.nodes), rels |-> Len(g.relationships)]
\* Line 84.
Failure == [status |-> "FAILURE", nodes |-> 0, rels |-> 0]

\* The history after writer w has written (nodes, rels) and is at position pos.
Noted(w, pos, nodes, rels) ==
    IF pos # "done" THEN burst
    ELSE [burst EXCEPT !.settled = TRUE,
                       !.atNodes = IF burst.settled THEN @ ELSE nodes,
                       !.atRels = IF burst.settled THEN @ ELSE rels,
                       !.reloaded = @ \/ w \in burst.after]

\* The history of writer w after statement `op` (of index k) has run or raised.
Traced(w, op, k, raised) ==
    [ltrace EXCEPT ![w] = Append(@, [op |-> op, k |-> k, raised |-> raised])]

\* main() (lines 87-132): a writer process reads the graph and calls writer.run.
StartLoad(w, g) ==
    /\ ~Active(w)
    /\ loads < MaxLoads
    /\ lpc' = [lpc EXCEPT ![w] = "prepare"]
    /\ lgraph' = [lgraph EXCEPT ![w] = g]
    /\ lidx' = [lidx EXCEPT ![w] = 1]
    /\ lresult' = [lresult EXCEPT ![w] = NoKGWriterModel]
    /\ ltrace' = [ltrace EXCEPT ![w] = <<>>]
    /\ loads' = loads + 1
    /\ burst' = IF burst.graph = g
                THEN [burst EXCEPT !.concurrent = @ \/ Active(Other(w)),
                                   !.after = IF burst.settled THEN @ \cup {w} ELSE @ \ {w}]
                ELSE [NoBurst EXCEPT !.graph = g, !.base = dbNodes, !.baseRels = dbRels,
                                     !.clean = ~Active(Other(w))]
    /\ UNCHANGED <<storeVars, backfillVars>>

\* Lines 48-54 and 59: the constraints; a constraint that cannot be created
\* raises, and run returns FAILURE.
prepare_db(w) ==
    /\ lpc[w] = "prepare"
    /\ constraints' = constraints \cup Prepared(dbNodes, constraints)
    /\ LET ok == Range(KnownLabels) \subseteq constraints'
           pos == IF ok THEN AfterNode(Graphs[lgraph[w]], 0) ELSE "done"
       IN /\ lpc' = [lpc EXCEPT ![w] = pos]
          /\ lresult' = [lresult EXCEPT ![w] =
                IF ~ok THEN Failure
                ELSE IF pos = "done" THEN Success(Graphs[lgraph[w]]) ELSE @]
          /\ burst' = IF ok THEN Noted(w, pos, dbNodes, dbRels) ELSE burst
          /\ ltrace' = Traced(w, "constraints", 0, ~ok)
    /\ UNCHANGED <<dbNodes, dbRels, vindexes, lgraph, lidx, loads, backfillVars>>

\* Lines 64-66: one node upsert.
UpsertNode(w) ==
    /\ lpc[w] = "nodes"
    /\ LET g == Graphs[lgraph[w]]
           pos == AfterNode(g, lidx[w])
       IN /\ dbNodes' = MergeNode(dbNodes, g.nodes[lidx[w]])
          /\ lpc' = [lpc EXCEPT ![w] = pos]
          /\ lidx' = [lidx EXCEPT ![w] = IF pos = "nodes" THEN @ + 1 ELSE 1]
          /\ lresult' = [lresult EXCEPT ![w] = IF pos = "done" THEN Success(g) ELSE @]
          /\ burst' = Noted(w, pos, dbNodes', dbRels)
    /\ ltrace' = Traced(w, "node", lidx[w], FALSE)
    /\ bhist' = [bhist EXCEPT !.quiet = FALSE]
    /\ UNCHANGED <<dbRels, constraints, vindexes, lgraph, loads,
                   bpc, blabel, brecords, bcalls, bruns>>

\* Lines 70-80: one relationship upsert.
UpsertRel(w) ==
    /\ lpc[w] = "rels"
    /\ LET g == Graphs[lgraph[w]]
           pos == AfterRel(g, lidx[w])
       IN /\ dbRels' = MergeRel(dbNodes, dbRels, g.relationships[lidx[w]])
          /\ lpc' = [lpc EXCEPT ![w] = pos]
          /\ lidx' = [lidx EXCEPT ![w] = IF pos = "rels" THEN @ + 1 ELSE 1]
          /\ lresult' = [lresult EXCEPT ![w] = IF pos = "done" THEN Success(g) ELSE @]
          /\ burst' = Noted(w, pos, dbNodes, dbRels')
    /\ ltrace' = Traced(w, "rel", lidx[w], FALSE)
    /\ bhist' = [bhist EXCEPT !.quiet = FALSE]
    /\ UNCHANGED <<dbNodes, constraints, vindexes, lgraph, loads,
                   bpc, blabel, brecords, bcalls, bruns>>

\* Lines 83-84: a session.run (or the session itself) raises, e.g. the connection
\* is lost; the exception leaves the loops and run returns FAILURE.
WriteRaises(w) ==
    /\ Active(w)
    /\ lpc' = [lpc EXCEPT ![w] = "done"]
    /\ lresult' = [lresult EXCEPT ![w] = Failure]
    /\ ltrace' = Traced(w, CASE lpc[w] = "prepare" -> "constraints"
                              [] lpc[w] = "nodes" -> "node"
                              [] OTHER -> "rel",
                         IF lpc[w] = "prepare" THEN 0 ELSE lidx[w], TRUE)
    /\ UNCHANGED <<storeVars, lgraph, lidx, loads, burst, backfillVars>>

NextLoad ==
    \/ \E w \in Writers, g \in DOMAIN Graphs :
          StartLoad(w, g) /\ UNCHANGED <<extractVars, mergeVars, gatewayVars>>
    \/ \E w \in Writers : prepare_db(w) /\ UNCHANGED <<extractVars, mergeVars, gatewayVars>>
    \/ \E w \in Writers : UpsertNode(w) /\ UNCHANGED <<extractVars, mergeVars, gatewayVars>>
    \/ \E w \in Writers : UpsertRel(w) /\ UNCHANGED <<extractVars, mergeVars, gatewayVars>>
    \/ \E w \in Writers : WriteRaises(w) /\ UNCHANGED <<extractVars, mergeVars, gatewayVars>>

InitLoad == ExtractIdle(1) /\ MergeIdle /\ DbIdle /\ GatewayIdle

SpecLoad == InitLoad /\ [][NextLoad]_vars

\* ------------------------------------------------------ embedding backfill
\* Line 58.
target_labels == <<"Company", "Content">>

\* Lines 37-55: the two vector indexes are created; an index that exists makes
\* create_vector_index raise, which is caught. Then the loop over the labels starts.
StartBackfill ==
    /\ bpc \in {"idle", "done"}
    /\ bruns < MaxBackfills
    /\ vindexes' = vindexes \cup {"company_name_index", "content_text_index"}
    /\ bpc' = "query"
    /\ blabel' = 1
    /\ brecords' = <<>>
    /\ bcalls' = 0
    /\ bruns' = bruns + 1
    /\ bhist' = [failed |-> FALSE, quiet |-> TRUE, prevDone |-> bpc = "done",
                 prevFailed |-> bhist.failed, prevQuiet |-> bhist.quiet]
    /\ UNCHANGED <<dbNodes, dbRels, constraints, writerVars>>

\* Faulty variant: the query without its WHERE clause, every node of the label.
RECURSIVE AllOfLabel(_, _)
AllOfLabel(nodes, label) ==
    IF nodes = <<>> THEN <<>>
    ELSE (IF Head(nodes).label = label
          THEN <<[id |-> Head(nodes).id, name |-> Head(nodes).name]>>
          ELSE <<>>) \o AllOfLabel(Tail(nodes), label)

\* The rows of MATCH (n:label) WHERE n.embedding IS NULL RETURN n.id, n.name.
RECURSIVE MissingEmbedding(_, _)
MissingEmbedding(nodes, label) ==
    IF nodes = <<>> THEN <<>>
    ELSE (IF Head(nodes).label = label /\ ~Head(nodes).embedding.set
          THEN <<[id |-> Head(nodes).id, name |-> Head(nodes).name]>>
          ELSE <<>>) \o MissingEmbedding(Tail(nodes), label)

\* Lines 62-66: the query for the nodes of the label that have no embedding.
QueryMissing ==
    /\ bpc = "query"
    /\ brecords' = MissingEmbedding(dbNodes, target_labels[blabel])
    /\ bpc' = "records"
    /\ UNCHANGED <<storeVars, writerVars, blabel, bcalls, bruns, bhist>>

\* Faulty variant: only a missing name is passed over, `text_to_embed is None`.
NoTextOnlyMissing(name) == name = Absent

\* `not text_to_embed`: the name is missing (null) or the empty string.
NoText(name) == name \in {Absent, ""}

\* Lines 72-73: a record without text is passed over.
SkipRecord ==
    /\ bpc = "records"
    /\ brecords # <<>>
    /\ NoText(Head(brecords).name)
    /\ brecords' = Tail(brecords)
    /\ UNCHANGED <<storeVars, writerVars, bpc, blabel, bcalls, bruns, bhist>>

\* MATCH (n:label {id: $id}) CALL db.create.setNodeVectorProperty(n, 'embedding', $vector)
SetEmbedding(nodes, label, id, vector) ==
    [k \in DOMAIN nodes |->
        IF k \in MatchLabelId(nodes, label, id)
        THEN [nodes[k] EXCEPT !.embedding = vector]
        ELSE nodes[k]]

\* Lines 76-84: embed_query returns and the vector is stored.
EmbedOk ==
    /\ bpc = "records"
    /\ brecords # <<>>
    /\ ~NoText(Head(brecords).name)
    /\ dbNodes' = SetEmbedding(dbNodes, target_labels[blabel], Head(brecords).id,
                               Vector(Head(brecords).name))
    /\ brecords' = Tail(brecords)
    /\ bcalls' = bcalls + 1
    /\ burst' = NoBurst
    /\ UNCHANGED <<dbRels, constraints, vindexes, lpc, lgraph, lidx, lresult, ltrace, loads,
                   bpc, blabel, bruns, bhist>>

\* Lines 86-87: embed_query, or the statement storing the vector, raises; the
\* error is printed and the loop goes on.
EmbedFail ==
    /\ bpc = "records"
    /\ brecords # <<>>
    /\ ~NoText(Head(brecords).name)
    /\ brecords' = Tail(brecords)
    /\ bcalls' = bcalls + 1
    /\ bhist' = [bhist EXCEPT !.failed = TRUE]
    /\ UNCHANGED <<storeVars, writerVars, bpc, blabel, bruns>>

\* Line 60: the records of a label are exhausted: the next label, or the end.
NextLabel ==
    /\ bpc = "records"
    /\ brecords = <<>>
    /\ bpc' = IF blabel < Len(target_labels) THEN "query" ELSE "done"
    /\ blabel' = IF blabel < Len(target_labels) THEN blabel + 1 ELSE blabel
    /\ UNCHANGED <<storeVars, writerVars, brecords, bcalls, bruns, bhist>>

\* One writer and the backfill, in any interleaving.
NextBackfill ==
    \/ \E g \in DOMAIN Graphs :
          /\ loads < MaxLoadsBesideBackfill
          /\ StartLoad(1, g)
          /\ UNCHANGED <<extractVars, mergeVars, gatewayVars>>
    \/ prepare_db(1) /\ UNCHANGED <<extractVars, mergeVars, gatewayVars>>
    \/ UpsertNode(1) /\ UNCHANGED <<extractVars, mergeVars, gatewayVars>>
    \/ UpsertRel(1) /\ UNCHANGED <<extractVars, mergeVars, gatewayVars>>
    \/ WriteRaises(1) /\ UNCHANGED <<extractVars, mergeVars, gatewayVars>>
    \/ StartBackfill /\ UNCHANGED <<extractVars, mergeVars, gatewayVars>>
    \/ QueryMissing /\ UNCHANGED <<extractVars, mergeVars, gatewayVars>>
    \/ SkipRecord /\ UNCHANGED <<extractVars, mergeVars, gatewayVars>>
    \/ EmbedOk /\ UNCHANGED <<extractVars, mergeVars, gatewayVars>>
    \/ EmbedFail /\ UNCHANGED <<extractVars, mergeVars, gatewayVars>>
    \/ NextLabel /\ UNCHANGED <<extractVars, mergeVars, gatewayVars>>

SpecBackfill == InitLoad /\ [][NextBackfill]_vars

InitExtract == (\E rows \in 1..MaxRows : ExtractIdle(rows)) /\ MergeIdle /\ DbIdle /\ GatewayIdle

SpecExtract == InitExtract /\ [][NextExtract]_vars

InitMerge == ExtractIdle(1) /\ MergeIdle /\ DbIdle /\ GatewayIdle

SpecMerge == InitMerge /\ [][NextMerge]_vars

SpecMergeAny == InitMerge /\ [][NextMergeAny]_vars

SpecGateway == InitLoad /\ [][NextGateway]_vars

\* The batch loop runs on while its process lives: a started run is not
\* suspended forever inside the loop (it may still be killed).
LiveExtract == SpecExtract /\ WF_vars(LoopStep /\ UNCHANGED <<mergeVars, dbVars>>)

\* ---------------------------------------------------- claims: extraction
Rows == 0 .. (total_rows - 1)
NumBatches == (total_rows + BATCH_SIZE - 1) \div BATCH_SIZE

\* A run is at the top of its loop and has extracted nothing yet.
AtRunStart == pc = "loop" /\ attempts = <<>>

\* C1 (as claimed): a run that starts with a checkpoint of length k starts at row
\* k * BATCH_SIZE, and the rows before that offset are exactly the rows of the
\* batches earlier runs have processed: none of them is extracted again, none
\* that is unprocessed is skipped.
C1_ResumeOffsetExact ==
    AtRunStart =>
        /\ i = start_k * BATCH_SIZE
        /\ {r \in Rows : r < start_k * BATCH_SIZE}
             = {r \in Rows : BatchOf(r) \in processedAtStart}

\* What does hold of the offset: it is exact as long as no extraction ever failed.
ResumeOffsetExactWithoutFailure ==
    (AtRunStart /\ ~everFailed) =>
        /\ i = start_k * BATCH_SIZE
        /\ {r \in Rows : r < start_k * BATCH_SIZE}
             = {r \in Rows : BatchOf(r) \in processedAtStart}

\* C2 (as claimed): when the extraction of the next batch can begin, the file
\* holds every partial graph recorded in memory; and after a crash, wherever it
\* struck, the file holds the list the last completed dump recorded, in order
\* (only the batch in flight is lost).
C2_CheckpointDurable ==
    /\ (pc = "loop" /\ all_raw_graphs # <<>>) => ckptFile = Json(all_raw_graphs)
    /\ (pc = "idle" /\ crashed) => ckptFile = recorded

\* The part of C2 that holds: write-after-every-batch.
PersistedBeforeNextBatch ==
    (pc = "loop" /\ all_raw_graphs # <<>>) => ckptFile = Json(all_raw_graphs)

\* The partial graphs of one uninterrupted run in which every batch is extracted.
FullList == [b \in 1..NumBatches |-> Response(b - 1)]

\* C3 (as claimed): a run that completes writes the consolidated graph of one
\* uninterrupted run, whatever crashes, restarts and re-runs came before; a run
\* never extracts a batch that an earlier run has already processed, so a run of
\* a pipeline that has already completed extracts nothing; and it rewrites the
\* same consolidated graph. The reference run is the one in which every batch
\* is extracted, so the comparisons of graphs are made for histories without a
\* failed extraction only.
C3_RunsConverge ==
    /\ (pc = "done" /\ ~everFailed) => finalFile = Json(merge_graphs(FullList))
    /\ \A k \in DOMAIN attempts : attempts[k][1] \notin processedAtStart
    /\ (written # <<>> /\ ~everFailed /\ pc \notin {"idle", "done"}) => attempts = <<>>
    /\ ~everFailed => \A j, k \in DOMAIN written : written[j] = written[k]

\* Without a failed extraction the runs do converge.
RunsConvergeWithoutFailure ==
    ~everFailed => C3_RunsConverge

\* The step in which an extraction of this run fails.
FailureStep ==
    /\ Len(attempts') = Len(attempts) + 1
    /\ Last(attempts')[2] = FALSE

FailedInThisRun ==
    /\ pc \notin {"idle", "done"}
    /\ \E k \in DOMAIN attempts : attempts[k][2] = FALSE

\* The loop is exhausted: the statement to execute is the final merge (line 150),
\* or the merge has been done.
AtFinalMerge ==
    \/ pc = "loop" /\ i >= total_rows
    \/ pc \in {"open_final", "dump_final", "done"}

\* C4: a failed extraction leaves the checkpoint as it was, in memory and on disk
\* (no placeholder); no batch is attempted twice in a run; after the failure the
\* loop is at the next batch; and the run goes on to the final merge (unless the
\* process is killed).
C4_FailurePolicy ==
    /\ [][FailureStep =>
            /\ all_raw_graphs' = all_raw_graphs
            /\ ckptFile' = ckptFile
            /\ pc' = "loop"
            /\ i' = (Last(attempts')[1] + 1) * BATCH_SIZE]_vars
    /\ [](\A j, k \in DOMAIN attempts : attempts[j][1] = attempts[k][1] => j = k)
    /\ (FailedInThisRun ~> (AtFinalMerge \/ pc = "idle"))

\* A run with a failed batch has reached its final merge with the checkpoint
\* holding only the batches that succeeded.
C4_Witness ==
    /\ pc = "done"
    /\ \E k \in DOMAIN attempts : attempts[k][2] = FALSE
    /\ \E k \in DOMAIN attempts : attempts[k][2] = TRUE
    /\ Len(all_raw_graphs) < Len(attempts)
    /\ ckptFile = Json(all_raw_graphs)

\* --------------------------------------------------------- claims: merge
\* Positions <<c, k>> of the nodes and of the relationships of the argument.
NodePos ==
    {p \in (1..MaxItems) \X (1..MaxItems) :
        /\ p[1] \in DOMAIN raw_data_list
        /\ "nodes" \in DOMAIN raw_data_list[p[1]]
        /\ p[2] \in DOMAIN raw_data_list[p[1]].nodes}
RelPos ==
    {p \in (1..MaxItems) \X (1..MaxItems) :
        /\ p[1] \in DOMAIN raw_data_list
        /\ "relationships" \in DOMAIN raw_data_list[p[1]]
        /\ p[2] \in DOMAIN raw_data_list[p[1]].relationships}
NodeAt(p) == raw_data_list[p[1]].nodes[p[2]]
RelAt(p) == raw_data_list[p[1]].relationships[p[2]]
Before(p, q) == p[1] < q[1] \/ (p[1] = q[1] /\ p[2] < q[2])

\* The identity of an input node.
IdentityOf(n) == normalize_id(n.label, n.name)

\* C5: the ids of the consolidated nodes are pairwise distinct, each is the
\* normalize_id of its node's own label and name, every consolidated node has the
\* label and name of an input node, and the input nodes of one identity (so any
\* two with the same label and name, in one batch or in two) yield exactly one node.
C5_MergeCollapsesByIdentity ==
    merged.ran =>
        /\ \A a, b \in DOMAIN merged.nodes :
              merged.nodes[a].id = merged.nodes[b].id => a = b
        /\ \A a \in DOMAIN merged.nodes :
              /\ merged.nodes[a].id = IdentityOf(merged.nodes[a])
              /\ \E p \in NodePos : /\ NodeAt(p).label = merged.nodes[a].label
                                    /\ NodeAt(p).name = merged.nodes[a].name
        /\ \A p \in NodePos :
              Cardinality({a \in DOMAIN merged.nodes :
                              merged.nodes[a].id = IdentityOf(NodeAt(p))}) = 1

\* The same (label, name) in two batches and under two local ids of one batch: one node.
C5_Witness ==
    /\ merged.ran
    /\ \E p, q \in NodePos : /\ p[1] # q[1]
                             /\ NodeAt(p).label = NodeAt(q).label
                             /\ NodeAt(p).name = NodeAt(q).name
    /\ \E p, q \in NodePos : /\ p[1] = q[1] /\ p[2] # q[2]
                             /\ NodeAt(p).id # NodeAt(q).id
                             /\ IdentityOf(NodeAt(p)) = IdentityOf(NodeAt(q))
    /\ Len(merged.nodes) = 1

\* An endpoint as rewritten in batch c: the identity of the last node of the
\* batch that has this local id, the endpoint itself when there is none.
Endpoint(c, e) ==
    LET ks == {k \in DOMAIN raw_data_list[c].nodes : raw_data_list[c].nodes[k].id = e}
    IN IF "nodes" \notin DOMAIN raw_data_list[c] \/ ks = {} THEN e
       ELSE IdentityOf(raw_data_list[c].nodes[CHOOSE k \in ks : \A j \in ks : j <= k])

\* The triple of the input relationship at p after id rewriting.
Rewritten(p) ==
    <<RelAt(p).type, Endpoint(p[1], RelAt(p).start_node_id),
      Endpoint(p[1], RelAt(p).end_node_id)>>

\* The first position of the input at which triple t occurs.
FirstPos(t) ==
    CHOOSE p \in RelPos :
        /\ Rewritten(p) = t
        /\ \A q \in RelPos : Rewritten(q) = t => (q = p \/ Before(p, q))

\* C6: the consolidated relationships carry pairwise distinct triples, their
\* triples are exactly the rewritten triples of the input (each once), and they
\* stand in the order of their first occurrence in the input.
C6_DedupLaw ==
    merged.ran =>
        /\ \A a, b \in DOMAIN merged.relationships :
              RelTuple(merged.relationships[a]) = RelTuple(merged.relationships[b]) => a = b
        /\ {RelTuple(merged.relationships[a]) : a \in DOMAIN merged.relationships}
              = {Rewritten(p) : p \in RelPos}
        /\ \A a, b \in DOMAIN merged.relationships :
              a < b => Before(FirstPos(RelTuple(merged.relationships[a])),
                              FirstPos(RelTuple(merged.relationships[b])))

\* Two relationships that differ as written and agree after rewriting, one that
\* repeats after another one: two consolidated relationships.
C6_Witness ==
    /\ merged.ran
    /\ \E p, q \in RelPos : /\ RelAt(p) # RelAt(q)
                            /\ Rewritten(p) = Rewritten(q)
                            /\ RelAt(p) # [type |-> Rewritten(p)[1],
                                           start_node_id |-> Rewritten(p)[2],
                                           end_node_id |-> Rewritten(p)[3]]
    /\ Cardinality(RelPos) = 3
    /\ Len(merged.relationships) = 2

\* A name that is missing or empty: null, NaN or the empty string.
Nameless(name) == name \in {None, NaN, <<>>}

\* C7 (as claimed): normalize_id gives "{label}_unknown" for every nameless node,
\* and the consolidated graph has at most one nameless node of a label.
C7_NamelessIsUnknown ==
    merged.ran =>
        /\ \A a \in DOMAIN merged.nodes :
              Nameless(merged.nodes[a].name) =>
                  merged.nodes[a].id =
                      merged.nodes[a].label \o <<"_","u","n","k","n","o","w","n">>
        /\ \A a, b \in DOMAIN merged.nodes :
              (/\ merged.nodes[a].label = merged.nodes[b].label
               /\ Nameless(merged.nodes[a].name)
               /\ Nameless(merged.nodes[b].name)) => a = b

\* What holds of normalize_id: null and NaN give "{label}_unknown".
MissingIsUnknown ==
    \A p \in NodePos :
        pd_isna(NodeAt(p).name) =>
            IdentityOf(NodeAt(p)) = NodeAt(p).label \o <<"_","u","n","k","n","o","w","n">>

\* C13: a consolidated node carries the name (and label) of the last input node
\* of its identity, in batch order and then in order within the batch, and the
\* consolidated nodes stand in the order of the first input node of each identity
\* (stated for neighbours; the order of positions is transitive).
C13_LastSeenWins ==
    merged.ran =>
        LET identified == {<<p, IdentityOf(NodeAt(p))>> : p \in NodePos}
        IN /\ \A a \in DOMAIN merged.nodes :
                 LET ps == {t[1] : t \in {u \in identified : u[2] = merged.nodes[a].id}}
                     last == CHOOSE p \in ps : \A q \in ps : q = p \/ Before(q, p)
                 IN /\ ps # {}
                    /\ merged.nodes[a].name = NodeAt(last).name
                    /\ merged.nodes[a].label = NodeAt(last).label
           /\ \A a \in 1 .. (Len(merged.nodes) - 1) :
                 LET ps == {t[1] : t \in {u \in identified : u[2] = merged.nodes[a].id}}
                     qs == {t[1] : t \in {u \in identified : u[2] = merged.nodes[a + 1].id}}
                     first == CHOOSE p \in ps : \A q \in ps : q = p \/ Before(p, q)
                     next == CHOOSE p \in qs : \A q \in qs : q = p \/ Before(p, q)
                 IN Before(first, next)

\* Two nodes of one identity with different names, in two batches, and a node of
\* another identity between them: the first consolidated node has the later name.
C13_Witness ==
    /\ merged.ran
    /\ Len(merged.nodes) = 2
    /\ \E p, q, r \in NodePos :
          /\ p[1] < q[1]
          /\ Before(p, r) /\ Before(r, q)
          /\ IdentityOf(NodeAt(p)) = IdentityOf(NodeAt(q))
          /\ IdentityOf(NodeAt(r)) # IdentityOf(NodeAt(p))
          /\ NodeAt(p).name # NodeAt(q).name
          /\ merged.nodes[1].name = NodeAt(q).name
          /\ merged.nodes[2].id = IdentityOf(NodeAt(r))

\* The local ids of the nodes of batch c.
LocalIds(c) == {NodeAt(p).id : p \in {q \in NodePos : q[1] = c}}

\* `out` is what the endpoint `raw` of a relationship of batch c may become: the
\* identity of a node of that batch with this local id, `raw` itself when the
\* batch has none (whatever the other batches hold).
EndpointOk(c, raw, out) ==
    IF raw \in LocalIds(c)
    THEN \E p \in NodePos : p[1] = c /\ NodeAt(p).id = raw /\ out = IdentityOf(NodeAt(p))
    ELSE out = raw

\* C14: every input relationship is in the consolidated graph, with its type and
\* with each endpoint mapped through the nodes of its own batch only, also when
\* an endpoint is the id of no consolidated node.
C14_DanglingKept ==
    merged.ran =>
        \A p \in RelPos :
            \E a \in DOMAIN merged.relationships :
                /\ merged.relationships[a].type = RelAt(p).type
                /\ EndpointOk(p[1], RelAt(p).start_node_id,
                              merged.relationships[a].start_node_id)
                /\ EndpointOk(p[1], RelAt(p).end_node_id,
                              merged.relationships[a].end_node_id)

\* A relationship whose start is the local id of a node of another batch only:
\* it is kept with the start as written, which no consolidated node has as id.
C14_Witness ==
    /\ merged.ran
    /\ \E p \in RelPos :
          /\ RelAt(p).start_node_id \notin LocalIds(p[1])
          /\ \E q \in NodePos : q[1] # p[1] /\ NodeAt(q).id = RelAt(p).start_node_id
          /\ \A a \in DOMAIN merged.nodes : merged.nodes[a].id # RelAt(p).start_node_id
          /\ \E a \in DOMAIN merged.relationships :
                /\ merged.relationships[a].type = RelAt(p).type
                /\ merged.relationships[a].start_node_id = RelAt(p).start_node_id

\* A partial graph as it counts when tolerated: a falsy one and one with a
\* record that lacks a field count as empty, a missing key as an empty list.
Tolerated(chunk) ==
    IF Falsy(chunk) \/ ChunkRaises(chunk) THEN EmptyChunk
    ELSE [nodes |-> ChunkGet(chunk, "nodes"),
          relationships |-> ChunkGet(chunk, "relationships")]

ToleratedList == [c \in DOMAIN raw_data_list |-> Tolerated(raw_data_list[c])]

\* C15 (as claimed): merge_graphs returns for every list, and returns what it
\* returns for the list with each malformed partial graph taken as empty.
C15_MalformedTolerated ==
    merged.ran =>
        /\ "raised" \notin DOMAIN merged
        /\ merged.nodes = merge_graphs(ToleratedList).nodes
        /\ merged.relationships = merge_graphs(ToleratedList).relationships

\* What holds: falsy partial graphs and missing keys are tolerated in this way
\* when every record has its fields.
FalsyAndMissingKeysTolerated ==
    (merged.ran /\ ~MergeRaises(raw_data_list)) =>
        /\ "raised" \notin DOMAIN merged
        /\ merged.nodes = merge_graphs(ToleratedList).nodes
        /\ merged.relationships = merge_graphs(ToleratedList).relationships

\* ---------------------------------------------------------- claims: load
NoDupNodes ==
    \A a, b \in DOMAIN dbNodes :
        (dbNodes[a].label = dbNodes[b].label /\ dbNodes[a].id = dbNodes[b].id) => a = b

NoDupRels == \A a, b \in DOMAIN dbRels : dbRels[a] = dbRels[b] => a = b

\* C8: once a load of a graph has succeeded, further loads of the same graph
\* (nothing else writing) leave the store as that load left it, at every step:
\* no node and no relationship is added, and no two nodes share (label, id).
C8_LoadIdempotent ==
    (burst.clean /\ burst.settled) =>
        /\ dbNodes = burst.atNodes
        /\ dbRels = burst.atRels
        /\ NoDupNodes

\* A second load, started after the first one succeeded on a store that was not
\* empty, has succeeded too.
C8_Witness ==
    /\ burst.clean
    /\ burst.reloaded
    /\ ~burst.concurrent
    /\ burst.base # <<>>
    /\ Len(dbNodes) > Len(burst.base)
    /\ Len(dbRels) > Len(burst.baseRels)

\* One load of graph g from the store (nodes, rels), with nothing else running.
RECURSIVE LoadNodes(_, _)
LoadNodes(nodes, todo) ==
    IF todo = <<>> THEN nodes ELSE LoadNodes(MergeNode(nodes, Head(todo)), Tail(todo))

RECURSIVE LoadRels(_, _, _)
LoadRels(nodes, rels, todo) ==
    IF todo = <<>> THEN rels
    ELSE LoadRels(nodes, MergeRel(nodes, rels, Head(todo)), Tail(todo))

BothSucceeded ==
    \A w \in Writers :
        lpc[w] = "done" /\ lresult[w].status = "SUCCESS" /\ lgraph[w] = burst.graph

\* C9: two writers have loaded the same graph with their upserts interleaved and
\* both succeeded: the store is what one load alone makes of the store they
\* started from, with no duplicate node and no duplicate relationship.
C9_ConcurrentLoadsSafe ==
    (burst.clean /\ burst.concurrent /\ BothSucceeded) =>
        /\ dbNodes = LoadNodes(burst.base, Graphs[burst.graph].nodes)
        /\ dbRels = LoadRels(LoadNodes(burst.base, Graphs[burst.graph].nodes),
                             burst.baseRels, Graphs[burst.graph].relationships)
        /\ NoDupNodes
        /\ NoDupRels

C9_Witness ==
    /\ burst.clean
    /\ burst.concurrent
    /\ BothSucceeded
    /\ burst.base # <<>>
    /\ Len(dbNodes) > Len(burst.base)
    /\ Len(dbRels) > Len(burst.baseRels)

\* C16: in the load of a writer, every node of the graph has been upserted before
\* a relationship upsert is attempted, and the constraints of all known labels
\* are there before a node upsert is attempted.
C16_LoadOrdering ==
    \A w \in Writers :
        \A a \in DOMAIN ltrace[w] :
            /\ ltrace[w][a].op = "rel" =>
                  \A k \in DOMAIN Graphs[lgraph[w]].nodes :
                      \E b \in 1 .. (a - 1) :
                          /\ ltrace[w][b].op = "node"
                          /\ ltrace[w][b].k = k
                          /\ ~ltrace[w][b].raised
            /\ ltrace[w][a].op = "node" =>
                  /\ \E b \in 1 .. (a - 1) :
                        ltrace[w][b].op = "constraints" /\ ~ltrace[w][b].raised
                  /\ Range(KnownLabels) \subseteq constraints

\* A load of two nodes and two relationships has succeeded.
C16_Witness ==
    \E w \in Writers :
        /\ lpc[w] = "done"
        /\ lresult[w].status = "SUCCESS"
        /\ Len(Graphs[lgraph[w]].nodes) = 2
        /\ Len(Graphs[lgraph[w]].relationships) = 2
        /\ Len(ltrace[w]) = 5

\* Writer w runs the statement of a relationship that has an endpoint id no node
\* of the store has, and the statement does not raise.
DanglingRelStep(w) ==
    /\ lpc[w] = "rels"
    /\ ltrace'[w] # ltrace[w]
    /\ ~Last(ltrace'[w]).raised
    /\ \/ MatchId(dbNodes, Graphs[lgraph[w]].relationships[lidx[w]].start_node_id) = {}
       \/ MatchId(dbNodes, Graphs[lgraph[w]].relationships[lidx[w]].end_node_id) = {}

\* C17: such an upsert changes nothing in the store, the loop goes on to the
\* next relationship, and after the last one the result is SUCCESS; a SUCCESS
\* counts every relationship of the graph, all of which were attempted.
C17_DanglingRelIsSkipped ==
    /\ [][\A w \in Writers :
            DanglingRelStep(w) =>
                /\ dbNodes' = dbNodes
                /\ dbRels' = dbRels
                /\ constraints' = constraints
                /\ IF lidx[w] < Len(Graphs[lgraph[w]].relationships)
                   THEN lpc'[w] = "rels" /\ lidx'[w] = lidx[w] + 1
                   ELSE lpc'[w] = "done" /\ lresult'[w].status = "SUCCESS"]_vars
    /\ [](\A w \in Writers :
            lresult[w].status = "SUCCESS" =>
                /\ lresult[w].rels = Len(Graphs[lgraph[w]].relationships)
                /\ \A k \in DOMAIN Graphs[lgraph[w]].relationships :
                      \E a \in DOMAIN ltrace[w] :
                          ltrace[w][a].op = "rel" /\ ltrace[w][a].k = k)

\* A load whose first relationship ends at an id that no node has: the second
\* one is written, the first is not, and the load reports two relationships.
C17_Witness ==
    \E w \in Writers :
        /\ lpc[w] = "done"
        /\ lgraph[w] = 2
        /\ lresult[w].status = "SUCCESS"
        /\ lresult[w].rels = 2
        /\ MatchId(dbNodes, "Rating_a") = {}
        /\ Len(dbNodes) = 2
        /\ Len(dbRels) = 1
        /\ dbRels[1].type = "HAS_CONTENT"

\* C18 (as claimed): when the statement of a relationship raises, the load goes
\* on with the relationships after it and does not end in FAILURE.
C18_RelErrorDoesNotAbort ==
    \A w \in Writers :
        \A a \in DOMAIN ltrace[w] :
            (ltrace[w][a].op = "rel" /\ ltrace[w][a].raised /\ lpc[w] = "done") =>
                /\ lresult[w].status # "FAILURE"
                /\ \A k \in (ltrace[w][a].k + 1) .. Len(Graphs[lgraph[w]].relationships) :
                      \E b \in DOMAIN ltrace[w] :
                          b > a /\ ltrace[w][b].op = "rel" /\ ltrace[w][b].k = k

\* ------------------------------------------------------ claims: backfill
\* The backfill has run before, and no writer has written since that run started.
SecondRunInARow ==
    /\ bpc # "idle"
    /\ bhist.prevDone
    /\ bhist.prevQuiet
    /\ bhist.quiet

C12_NeverRaises ==
    gpc = "returned" =>
        /\ greturn.kind = "return"
        /\ gfailed.stage # "none" =>
              /\ greturn.answer.type = "str"
              /\ greturn.answer.value = "error during analysis: " \o gfailed.exception
              /\ greturn.query = Str("Error")
        /\ (gfailed.stage = "none" /\ gitems = <<>>) =>
              /\ greturn.answer = NoneType
              /\ gcreate = <<>>
        /\ greturn.answer = NoneType => (gfailed.stage = "none" /\ gitems = <<>>)
        /\ (gfailed.stage = "none" /\ gitems # <<>>) =>
              /\ greturn.answer.type = "str"
              /\ Len(gcreate) = 1

\* The chat model raised after records were found, and the call returned.
C12_Witness ==
    /\ gpc = "returned"
    /\ gfailed.stage = "synthesis"
    /\ gitems # <<>>
    /\ greturn.kind = "return"

\* A step of the embedding update of the backfill (lines 58-87).
BackfillStep ==
    /\ bpc # "idle"
    /\ <<bpc, blabel, brecords, bcalls>>' # <<bpc, blabel, brecords, bcalls>>
    /\ bruns' = bruns

C20_EmbeddingKept ==
    [][\A k \in DOMAIN dbNodes :
          dbNodes[k].embedding.set =>
              /\ k \in DOMAIN dbNodes'
              /\ dbNodes'[k].embedding = dbNodes[k].embedding]_vars

\* A node got its embedding from one name and has had its name overwritten by a
\* later load; the embedding is still the one of the first name.
C20_Witness ==
    \E k \in DOMAIN dbNodes :
        /\ dbNodes[k].embedding = Vector("Acme")
        /\ dbNodes[k].name = "acme."
        /\ \E w \in Writers : lpc[w] = "done" /\ lresult[w].status = "SUCCESS" /\ lgraph[w] = 2

====
